---- MODULE Spec2Model ----
(***************************************************************************)
(* The authorization gateway of the LMS: the Appwrite functions            *)
(* (backend/functions/*.go and the two unnamed function files) and the     *)
(* HTTP service (backend/main.go), over a document store and a policy      *)
(* decision point (PDP) that answer nondeterministically.                  *)
(*                                                                         *)
(* A request is handled as a sequence of steps; a step ends where the      *)
(* handler, having read a document, goes on to write it.  PDP checks and   *)
(* resource syncs read and write nothing of the store, so each is part of  *)
(* the step of the store call it follows.  Every call a handler issues is  *)
(* appended to the request's call log.                                     *)
(***************************************************************************)
EXTENDS Integers, Sequences, FiniteSets, Bags, TLC

\* ------------------------------------------------------------------ bounds
MaxCourses == 2      \* documents the courses collection can hold
MaxSubs == 2         \* documents the submissions collection can hold
MaxOps == 2          \* requests received in one behaviour
MaxInFlight == 2     \* requests in flight at the same time
MaxTime == 3         \* clock readings are 0..MaxTime
TicksPerDay == 2     \* clock readings per calendar day

\* ------------------------------------------------------------- principals
Users == {"a1", "t1", "s1", "s2"}

\* The role the identity resolver holds for a principal; the functions
\* receive it as req.UserRole.
RoleOf(u) ==
  CASE u = "a1" -> "admin"
    [] u = "t1" -> "teacher"
    [] OTHER -> "student"

PDPAnswers == {"allow", "deny", "error"}
StoreAnswers == {"ok", "error"}
SyncAnswers == {"ok", "error"}
\* json.Unmarshal of the store's reply to a write into the handler's struct
ParseAnswers == {"ok", "error"}
Titles == {"", "T"}
\* teacherId of a create request: absent, t1, or t2 (a principal that sends
\* no request here)
TeacherIds == {"", "t1", "t2"}
Grades == {0, 50, 101}

\* The assignments collection: no handler of the repository writes it.
\* dueDate is the stored text: a calendar day, or text time.Parse rejects.
Assignments ==
  << [courseId |-> 1, dueDate |-> [wellFormed |-> TRUE, day |-> 1]],
     [courseId |-> 1, dueDate |-> [wellFormed |-> FALSE, day |-> 0]] >>

VARIABLES
  courses,      \* the courses collection: document id = index
  submissions,  \* the submissions collection: document id = index
  inflight,     \* the requests in flight: a bag, two requests can be alike
  last,         \* the request answered most recently, with its response
  enrolled,     \* history: <<student, course>> pairs an enroll answered success for
  opsStarted,   \* requests received so far
  pdp           \* the attributes the PDP holds for the courses synced to it

vars == <<courses, submissions, inflight, last, enrolled, opsStarted, pdp>>

\* ------------------------------------------------------------ request record
NoOp ==
  [kind |-> "none", user |-> "", role |-> "", arg |-> 0, tid |-> "",
   title |-> "", grade |-> 0, now |-> 0, prior |-> FALSE, pc |-> "idle",
   calls |-> <<>>, buf |-> <<>>, out |-> <<>>, resp |-> "",
   route |-> "", header |-> <<>>]

NewOp(kind, u, role, arg) ==
  [NoOp EXCEPT !.kind = kind, !.user = u, !.role = role, !.arg = arg,
               !.pc = "start"]

\* A request of the HTTP service: its route and its Authorization header.
HttpOp(kind, u, arg, header) ==
  [NewOp(kind, u, RoleOf(u), arg) EXCEPT !.route = kind, !.header = header]

Call(name, obj, res) == [call |-> name, obj |-> obj, res |-> res]

Log(op, name, obj, res) == [op EXCEPT !.calls = Append(@, Call(name, obj, res))]

Answer(op, resp) == [op EXCEPT !.resp = resp, !.pc = "done"]

CallsOf(op, name) == {i \in DOMAIN op.calls : op.calls[i].call = name}

InFlight == BagToSet(inflight)

\* The request-dispatch layer takes one more request in.
CanDispatch == BagCardinality(inflight) < MaxInFlight

\* A request goes on to its next store call; it leaves the bag when answered.
Put(op) == inflight (+) SetToBag({op})

Take(op) == inflight (-) SetToBag({op})

CanStart == opsStarted < MaxOps

\* The response is recorded.
Respond(op) ==
  /\ last' = op
  /\ enrolled' = IF op.kind \in {"enroll_course", "EnrollInCourse"} /\ op.resp = "ok"
                 THEN enrolled \cup {<<op.user, op.arg>>}
                 ELSE enrolled

\* The handler answers on a path that issues no SyncResource.
Finish(op) ==
  /\ Respond(op)
  /\ UNCHANGED pdp

\* The PDP's view once a SyncResource call was not acknowledged: what the PDP
\* holds from then on is not followed.
Unacked == [acked |-> FALSE, view |-> <<>>]

\* SyncResource(ctx, "course", id, attrs): acknowledged, the PDP holds attrs
\* for the course.  A handler issues it right after its write and reads nothing
\* in between, so it is taken in the step of the write: the PDP receives the
\* syncs in the order of the writes.
SyncResource(id, attrs, ack) ==
  pdp' = IF ack = "error" \/ ~pdp.acked
         THEN Unacked
         ELSE [pdp EXCEPT !.view = [c \in DOMAIN pdp.view \cup {id} |->
                                      IF c = id THEN attrs ELSE pdp.view[c]]]

\* The request goes on to its next call, unanswered.
NoAnswer == UNCHANGED <<last, enrolled, pdp>>

CourseDocUnowned(teacherId, title) ==
  [teacherId |-> "", title |-> title, studentIds |-> <<>>]

CourseDoc(teacherId, title) ==
  [teacherId |-> teacherId, title |-> title, studentIds |-> <<>>]

SubmissionDoc(assignmentId, studentId) ==
  [assignmentId |-> assignmentId, studentId |-> studentId, grade |-> 0]

\* The collections as the handlers find them: the course the assignments
\* belong to, created by t1, and a submission s1 has made in time.
Init ==
  /\ courses = <<CourseDoc("t1", "T")>>
  /\ submissions = <<SubmissionDoc(1, "s1")>>
  /\ inflight = EmptyBag
  /\ last = NoOp
  /\ enrolled = {}
  /\ opsStarted = 0
  /\ pdp = [acked |-> TRUE,
            view |-> [c \in {1} |-> [teacherId |-> "t1", studentIds |-> <<>>]]]

\* ------------------------------------------------------------ PDP answers
\* `if err != nil { ... return }; if !allowed { ... return }`
CheckFailOpen(answer) == answer # "deny"

CheckAllows(answer) == answer = "allow"

\* ----------------------------------------------------------- List Courses
AllIds(docs) == [i \in 1..Len(docs) |-> i]

\* The check log of a filtering loop: one PDP check per listed course.
CheckLog(ans) == [i \in DOMAIN ans |-> Call("check", i, ans[i])]

Patterns == [1..Len(courses) -> PDPAnswers]

courseVisibleFailOpen(answer) == answer # "deny"

\* get_courses.go: `if err != nil { continue }; if allowed { append }`
courseVisible(answer) == answer = "allow"

RECURSIVE filterLoop(_, _, _)
\* get_courses.go: the student branch's loop over allCourses, from index i
filterLoop(n, ans, i) ==
  IF i > n THEN <<>>
  ELSE (IF courseVisible(ans[i]) THEN <<i>> ELSE <<>>) \o filterLoop(n, ans, i + 1)

teacherQueryAll(docs, userID, i) == [k \in 1..Len(docs) |-> k]

RECURSIVE teacherQuery(_, _, _)
\* ListDocuments with query.Equal("teacherId", userID), evaluated by the store
teacherQuery(docs, userID, i) ==
  IF i > Len(docs) THEN <<>>
  ELSE (IF docs[i].teacherId = userID THEN <<i>> ELSE <<>>)
       \o teacherQuery(docs, userID, i + 1)

\* The get_courses function: one store read, then the role's filter.
get_courses(u) ==
  /\ CanStart
  /\ LET role == RoleOf(u)
         op0 == NewOp("get_courses", u, role, 0)
     IN  IF role \notin {"admin", "teacher", "student"}
         THEN Finish(Answer(op0, "ok"))
         ELSE \E st \in StoreAnswers :
           LET op1 == Log(op0, "list", 0, st)
           IN  IF st = "error"
               THEN Finish(Answer(op1, "store_error"))
               ELSE IF role = "admin"
               THEN Finish(Answer([op1 EXCEPT !.out = AllIds(courses)], "ok"))
               ELSE IF role = "teacher"
               THEN Finish(Answer([op1 EXCEPT !.out = teacherQuery(courses, u, 1)], "ok"))
               ELSE \E ans \in Patterns :
                      Finish(Answer([op1 EXCEPT !.calls = @ \o CheckLog(ans),
                                                !.out = filterLoop(Len(courses), ans, 1)],
                                    "ok"))
  /\ opsStarted' = opsStarted + 1
  /\ UNCHANGED <<courses, submissions, inflight>>

RECURSIVE viewLoopStopsAtError(_, _, _)
viewLoopStopsAtError(n, ans, i) ==
  IF i > n \/ ans[i] = "error" THEN <<>>
  ELSE (IF ans[i] = "allow" THEN <<i>> ELSE <<>>)
       \o viewLoopStopsAtError(n, ans, i + 1)

RECURSIVE viewLoop(_, _, _)
\* main.go GetCourses: the loop over allCourses, `continue` on a check error
viewLoop(n, ans, i) ==
  IF i > n THEN <<>>
  ELSE (IF ans[i] = "allow" THEN <<i>> ELSE <<>>) \o viewLoop(n, ans, i + 1)

\* The HTTP service's GetCourses: every course is checked, whatever the role.
GetCourses(u, header) ==
  /\ CanStart
  /\ \E st \in StoreAnswers :
       LET op0 == Log(HttpOp("GetCourses", u, 0, header), "list", 0, st)
       IN  IF st = "error"
           THEN Finish(Answer(op0, "store_error"))
           ELSE \E ans \in Patterns :
                  Finish(Answer([op0 EXCEPT !.calls = @ \o CheckLog(ans),
                                            !.out = viewLoop(Len(courses), ans, 1)],
                                "ok"))
  /\ opsStarted' = opsStarted + 1
  /\ UNCHANGED <<courses, submissions, inflight>>

\* ---------------------------------------------------------- Create Course
SyncFatal(ack) == IF ack = "error" THEN "sync_error" ELSE "ok"

\* `if err != nil { log.Printf("Failed to sync ...") }`, then the success answer
SyncOutcome(ack) == "ok"

\* What a handler answers when its PDP check did not let it proceed.
CheckRefusal(answer) == IF answer = "error" THEN "pdp_error" ELSE "denied"

\* The create_course function: the PDP check on (userId, create, course), the
\* write of the new document, and SyncResource, whose failure is logged only.
create_course(u, title) ==
  /\ CanStart
  /\ LET op0 == [NewOp("create_course", u, RoleOf(u), 0) EXCEPT !.title = title]
     IN  \E ans \in PDPAnswers :
           LET op1 == Log(op0, "check", 0, ans)
           IN  IF ~CheckAllows(ans)
               THEN /\ Finish(Answer(op1, CheckRefusal(ans)))
                    /\ UNCHANGED courses
               ELSE \E st \in StoreAnswers :
                 LET id == Len(courses) + 1
                     op2 == Log(op1, "create", id, st)
                 IN  IF st = "error"
                     THEN /\ Finish(Answer(op2, "store_error"))
                          /\ UNCHANGED courses
                     ELSE /\ Len(courses) < MaxCourses
                          /\ courses' = Append(courses, CourseDoc(u, title))
                          /\ \E pr \in ParseAnswers :
                               IF pr = "error"
                               THEN Finish(Answer(op2, "parse_error"))
                               ELSE \E ack \in SyncAnswers :
                                 /\ Respond(Answer([Log(op2, "sync", id, ack)
                                                      EXCEPT !.out = <<id>>],
                                                   SyncOutcome(ack)))
                                 /\ SyncResource(id, [teacherId |-> u,
                                                      studentIds |-> <<>>], ack)
  /\ opsStarted' = opsStarted + 1
  /\ UNCHANGED <<submissions, inflight>>

\* AuthMiddleware: the user info a handler finds in the request context.
ContextUser(u) == [id |-> u, roles |-> <<RoleOf(u)>>]

\* `userRole, _ := user["role"].(string)`: the zero value when the key is absent
ContextRole(user) == IF "role" \in DOMAIN user THEN user.role ELSE ""

\* `if courseData.TeacherID == "" || userRole != "admin" { ... = userID }`
courseDataTeacherID(teacherId, userRole, userID) ==
  IF teacherId = "" \/ userRole # "admin" THEN userID ELSE teacherId

\* main.go 326-331 read newCourse.TeacherID, and the handler declares no
\* newCourse: the payload values in scope that the name can denote.
newCourseTeacherID(courseDataTeacher, requestTeacher) ==
  {courseDataTeacher, requestTeacher}

\* `for _, role := range user["roles"].([]string) { if role == "admin" ... }`
isAdmin(roles) == \E i \in DOMAIN roles : roles[i] = "admin"

\* The HTTP service's CreateCourse; a failure of Api.SyncResource is logged
\* and the answer stays 201.
CreateCourse(u, title, tid, header) ==
  /\ CanStart
  /\ LET user == ContextUser(u)
         userID == user.id
         userRole == ContextRole(user)
         teacher == courseDataTeacherID(tid, userRole, userID)
         op0 == [HttpOp("CreateCourse", u, 0, header)
                   EXCEPT !.title = title, !.tid = tid]
     IN  IF title = ""
         THEN /\ Finish(Answer(op0, "validation"))
              /\ UNCHANGED courses
         ELSE \E ans \in PDPAnswers :
           LET op1 == Log(op0, "check", 0, ans)
           IN  IF ~CheckAllows(ans)
               THEN /\ Finish(Answer(op1, CheckRefusal(ans)))
                    /\ UNCHANGED courses
               ELSE \E nc \in newCourseTeacherID(teacher, tid) :
                 LET newTeacher == IF nc = "" THEN userID ELSE nc
                 IN  IF newTeacher # userID /\ ~isAdmin(user.roles)
                     THEN /\ Finish(Answer(op1, "admins_only"))
                          /\ UNCHANGED courses
                     ELSE \E st \in StoreAnswers :
                       LET id == Len(courses) + 1
                           op2 == Log(op1, "create", id, st)
                       IN  IF st = "error"
                           THEN /\ Finish(Answer(op2, "store_error"))
                                /\ UNCHANGED courses
                           ELSE /\ Len(courses) < MaxCourses
                                /\ courses' = Append(courses, CourseDoc(teacher, title))
                                /\ \E ack \in SyncAnswers :
                                     /\ Respond(Answer([Log(op2, "sync", id, ack)
                                                          EXCEPT !.out = <<id>>],
                                                       SyncOutcome(ack)))
                                     /\ SyncResource(id, [teacherId |-> teacher], ack)
  /\ opsStarted' = opsStarted + 1
  /\ UNCHANGED <<submissions, inflight>>

\* -------------------------------------------------------- Enroll In Course
CourseArgs == 0..MaxCourses      \* 0 is the empty course id

Exists(docs, id) == id \in 1..Len(docs)

\* GetDocument: the document, or an error (no such document, or transport)
GetAnswers(docs, id) == IF Exists(docs, id) THEN StoreAnswers ELSE {"error"}

anyRoleEnrolls(userRole) == TRUE

\* `if req.UserRole != "student" { respondWithError(...); return }`
studentOnly(userRole) == userRole = "student"

neverEnrolled(studentIds, userID) == FALSE

\* `for _, studentID := range course.StudentIDs { if studentID == userID ... }`
AlreadyEnrolled(studentIds, userID) ==
  \E i \in DOMAIN studentIds : studentIds[i] = userID

\* The enroll_course function up to its UpdateDocument call: the role check,
\* the PDP check on (userId, enroll, course:courseId), the read of the course
\* and the membership test.
enroll_course(u, cid) ==
  /\ CanStart
  /\ CanDispatch
  /\ LET op0 == [NewOp("enroll_course", u, RoleOf(u), cid)
                   EXCEPT !.prior = <<u, cid>> \in enrolled]
     IN  IF ~studentOnly(op0.role)
         THEN /\ Finish(Answer(op0, "role_denied"))
              /\ UNCHANGED inflight
         ELSE \E ans \in PDPAnswers :
           LET op1 == Log(op0, "check", cid, ans)
           IN  IF ~CheckAllows(ans)
               THEN /\ Finish(Answer(op1, CheckRefusal(ans)))
                    /\ UNCHANGED inflight
               ELSE \E g \in GetAnswers(courses, cid) :
                 LET op2 == Log(op1, "get", cid, g)
                 IN  IF g = "error"
                     THEN /\ Finish(Answer(op2, "get_failed"))
                          /\ UNCHANGED inflight
                     ELSE IF AlreadyEnrolled(courses[cid].studentIds, u)
                     THEN /\ Finish(Answer(op2, "already"))
                          /\ UNCHANGED inflight
                     ELSE /\ inflight' = Put(
                               [op2 EXCEPT !.pc = "update",
                                           !.buf = Append(courses[cid].studentIds, u)])
                          /\ NoAnswer
  /\ opsStarted' = opsStarted + 1
  /\ UNCHANGED <<courses, submissions>>

enroll_course_syncFirst(r) ==
  /\ r \in InFlight
  /\ r.kind = "enroll_course"
  /\ r.pc = "update"
  /\ \E ack \in SyncAnswers, w \in StoreAnswers :
       LET op == Log(Log(r, "sync", r.arg, ack), "update", r.arg, w)
       IN  IF w = "error"
           THEN /\ Finish(Answer(op, "store_error"))
                /\ UNCHANGED courses
           ELSE /\ courses' = [courses EXCEPT ![op.arg].studentIds = op.buf]
                /\ Finish(Answer([op EXCEPT !.out = op.buf], "ok"))
  /\ inflight' = Take(r)
  /\ UNCHANGED <<submissions, opsStarted>>

\* enroll_course: UpdateDocument writes studentIds as read plus the student,
\* then SyncResource of the course, whose failure is logged only.
enroll_course_update(r) ==
  /\ r \in InFlight
  /\ r.kind = "enroll_course"
  /\ r.pc = "update"
  /\ \E w \in StoreAnswers :
       LET op == Log(r, "update", r.arg, w)
       IN  IF w = "error"
           THEN /\ Finish(Answer(op, "store_error"))
                /\ UNCHANGED courses
           ELSE /\ courses' = [courses EXCEPT ![op.arg].studentIds = op.buf]
                /\ \E pr \in ParseAnswers :
                     IF pr = "error"
                     THEN Finish(Answer(op, "parse_error"))
                     ELSE \E ack \in SyncAnswers :
                       /\ Respond(Answer([Log(op, "sync", op.arg, ack)
                                            EXCEPT !.out = op.buf],
                                         SyncOutcome(ack)))
                       /\ SyncResource(op.arg,
                                       [teacherId |-> courses[op.arg].teacherId,
                                        studentIds |-> op.buf], ack)
  /\ inflight' = Take(r)
  /\ UNCHANGED <<submissions, opsStarted>>

\* enroll_course inside permitClient.Check(context.Background(), ...) when the
\* PDP never answers: the context carries no deadline and the client is given
\* no timeout, so the call does not return and no statement of the handler
\* runs after it.
enroll_course_blocked(u, cid) ==
  /\ CanStart
  /\ CanDispatch
  /\ studentOnly(RoleOf(u))
  /\ inflight' = Put([Log(NewOp("enroll_course", u, RoleOf(u), cid),
                          "check", cid, "pending") EXCEPT !.pc = "blocked"])
  /\ opsStarted' = opsStarted + 1
  /\ NoAnswer
  /\ UNCHANGED <<courses, submissions>>

\* The HTTP service's EnrollInCourse up to its UpdateDocument call.  userID
\* and userRole are declared in the part of the handler the source elides
\* (`// ...`): the caller's id and role.  The handler issues no PDP check.
EnrollInCourse(u, cid, header) ==
  /\ CanStart
  /\ CanDispatch
  /\ LET op0 == [HttpOp("EnrollInCourse", u, cid, header)
                   EXCEPT !.prior = <<u, cid>> \in enrolled]
     IN  IF cid = 0
         THEN /\ Finish(Answer(op0, "validation"))
              /\ UNCHANGED inflight
         ELSE IF op0.role # "student"
         THEN /\ Finish(Answer(op0, "role_denied"))
              /\ UNCHANGED inflight
         ELSE \E g \in GetAnswers(courses, cid) :
           LET op1 == Log(op0, "get", cid, g)
           IN  IF g = "error"
               THEN /\ Finish(Answer(op1, "get_failed"))
                    /\ UNCHANGED inflight
               ELSE IF AlreadyEnrolled(courses[cid].studentIds, u)
               THEN /\ Finish(Answer(op1, "already"))
                    /\ UNCHANGED inflight
               ELSE /\ inflight' = Put(
                         [op1 EXCEPT !.pc = "update",
                                     !.buf = Append(courses[cid].studentIds, u)])
                    /\ NoAnswer
  /\ opsStarted' = opsStarted + 1
  /\ UNCHANGED <<courses, submissions>>

EnrollInCourseReplacesDoc(r) ==
  /\ r \in InFlight
  /\ r.kind = "EnrollInCourse"
  /\ r.pc = "update"
  /\ \E w \in StoreAnswers :
       LET op == Log(r, "update", r.arg, w)
       IN  IF w = "error"
           THEN /\ Finish(Answer(op, "store_error"))
                /\ UNCHANGED courses
           ELSE /\ courses' = [courses EXCEPT ![op.arg] =
                                 [teacherId |-> op.user, title |-> "",
                                  studentIds |-> op.buf]]
                /\ Finish(Answer(op, "ok"))
  /\ inflight' = Take(r)
  /\ UNCHANGED <<submissions, opsStarted>>

\* EnrollInCourse: UpdateDocument, then the success answer.
EnrollInCourseUpdate(r) ==
  /\ r \in InFlight
  /\ r.kind = "EnrollInCourse"
  /\ r.pc = "update"
  /\ \E w \in StoreAnswers :
       LET op == Log(r, "update", r.arg, w)
       IN  IF w = "error"
           THEN /\ Finish(Answer(op, "store_error"))
                /\ UNCHANGED courses
           ELSE /\ courses' = [courses EXCEPT ![op.arg].studentIds = op.buf]
                /\ Finish(Answer(op, "ok"))
  /\ inflight' = Take(r)
  /\ UNCHANGED <<submissions, opsStarted>>

\* -------------------------------------------------------- Submit Assignment
AssignmentArgs == 0..Len(Assignments)   \* 0 is an id the collection lacks
Clock == 0..MaxTime

ParseDateEndOfDay(dueDate) ==
  [ok |-> dueDate.wellFormed, instant |-> (dueDate.day + 1) * TicksPerDay - 1]

\* time.Parse("2006-01-02", dueDate): the instant 00:00:00 UTC of that day
ParseDate(dueDate) ==
  [ok |-> dueDate.wellFormed, instant |-> dueDate.day * TicksPerDay]

neverPastDue(now, dueInstant) == FALSE

\* `time.Now().After(dueDate)`
IsPastDue(now, dueInstant) == now > dueInstant

submit_assignment_dueFirst(u, aid) ==
  /\ CanStart
  /\ LET op0 == NewOp("submit_assignment", u, RoleOf(u), aid)
     IN  IF op0.role # "student"
         THEN /\ Finish(Answer(op0, "role_denied"))
              /\ UNCHANGED submissions
         ELSE \E g \in GetAnswers(Assignments, aid) :
           LET op1 == Log(op0, "get", aid, g)
           IN  IF g = "error"
               THEN /\ Finish(Answer(op1, "get_failed"))
                    /\ UNCHANGED submissions
               ELSE IF ~ParseDate(Assignments[aid].dueDate).ok
               THEN /\ Finish(Answer(op1, "bad_date"))
                    /\ UNCHANGED submissions
               ELSE \E now \in Clock :
                 IF IsPastDue(now, ParseDate(Assignments[aid].dueDate).instant)
                 THEN /\ Finish(Answer([op1 EXCEPT !.now = now], "past_due"))
                      /\ UNCHANGED submissions
                 ELSE \E ans \in PDPAnswers :
                   LET op2 == Log([op1 EXCEPT !.now = now], "check", aid, ans)
                   IN  /\ Finish(Answer(op2, IF CheckAllows(ans) THEN "store_error"
                                                ELSE CheckRefusal(ans)))
                       /\ UNCHANGED submissions
  /\ opsStarted' = opsStarted + 1
  /\ UNCHANGED <<courses, inflight>>

\* The submit_assignment function; `now` is what time.Now() reads once the
\* due date is parsed.  It writes the store once, in its last call, and reads
\* only the assignments collection, which nothing writes: the handler is one
\* step.
submit_assignment(u, aid) ==
  /\ CanStart
  /\ LET op0 == NewOp("submit_assignment", u, RoleOf(u), aid)
     IN  IF op0.role # "student"
         THEN /\ Finish(Answer(op0, "role_denied"))
              /\ UNCHANGED submissions
         ELSE \E ans \in PDPAnswers :
           LET op1 == Log(op0, "check", aid, ans)
           IN  IF ~CheckAllows(ans)
               THEN /\ Finish(Answer(op1, CheckRefusal(ans)))
                    /\ UNCHANGED submissions
               ELSE \E g \in GetAnswers(Assignments, aid) :
                 LET op2 == Log(op1, "get", aid, g)
                 IN  IF g = "error"
                     THEN /\ Finish(Answer(op2, "get_failed"))
                          /\ UNCHANGED submissions
                     ELSE IF ~ParseDate(Assignments[aid].dueDate).ok
                     THEN /\ Finish(Answer(op2, "bad_date"))
                          /\ UNCHANGED submissions
                     ELSE \E now \in Clock :
                       IF IsPastDue(now, ParseDate(Assignments[aid].dueDate).instant)
                       THEN /\ Finish(Answer([op2 EXCEPT !.now = now], "past_due"))
                            /\ UNCHANGED submissions
                       ELSE \E st \in StoreAnswers :
                       LET op3 == Log([op2 EXCEPT !.now = now], "create",
                                      Len(submissions) + 1, st)
                       IN  IF st = "error"
                           THEN /\ Finish(Answer(op3, "store_error"))
                                /\ UNCHANGED submissions
                           ELSE /\ Len(submissions) < MaxSubs
                                /\ submissions' =
                                     Append(submissions, SubmissionDoc(aid, u))
                                /\ \E pr \in ParseAnswers :
                                     IF pr = "error"
                                     THEN Finish(Answer(op3, "parse_error"))
                                     ELSE Finish(Answer([op3 EXCEPT !.out =
                                                    <<Len(submissions) + 1>>], "ok"))
  /\ opsStarted' = opsStarted + 1
  /\ UNCHANGED <<courses, inflight>>

\* --------------------------------------------------------- Grade Assignment
SubmissionArgs == 0..MaxSubs            \* 0 is the empty submission id

anyRoleGrades(userRole) == TRUE

\* `if req.UserRole != "teacher" && req.UserRole != "admin" { ...; return }`
graderRole(userRole) == userRole = "teacher" \/ userRole = "admin"

GradeReplacesDoc(subs, sid, grade) ==
  [subs EXCEPT ![sid] = [assignmentId |-> 0, studentId |-> "", grade |-> grade]]

\* UpdateDocument(..., req.SubmissionID, {"grade": ..., "feedback": ...}): the
\* fields the map names are set, the others keep their values.
GradeUpdate(subs, sid, grade) == [subs EXCEPT ![sid].grade = grade]

\* The grade_assignment function.  Its one write sets grade and feedback from
\* the request alone, and the assignmentId it reads is never rewritten: the
\* handler is one step.
grade_assignment(u, sid, grade) ==
  /\ CanStart
  /\ LET op0 == [NewOp("grade_assignment", u, RoleOf(u), sid) EXCEPT !.grade = grade]
     IN  IF ~graderRole(op0.role)
         THEN /\ Finish(Answer(op0, "role_denied"))
              /\ UNCHANGED submissions
         ELSE \E g \in GetAnswers(submissions, sid) :
           LET op1 == Log(op0, "get", sid, g)
           IN  IF g = "error"
               THEN /\ Finish(Answer(op1, "get_failed"))
                    /\ UNCHANGED submissions
               ELSE \E ans \in PDPAnswers :
                 LET op2 == Log(op1, "check", submissions[sid].assignmentId, ans)
                 IN  IF ~CheckAllows(ans)
                     THEN /\ Finish(Answer(op2, CheckRefusal(ans)))
                          /\ UNCHANGED submissions
                     ELSE \E w \in StoreAnswers :
                       LET op3 == Log(op2, "update", sid, w)
                       IN  IF w = "error"
                           THEN /\ Finish(Answer(op3, "store_error"))
                                /\ UNCHANGED submissions
                           ELSE /\ submissions' =
                                     GradeUpdate(submissions, sid, grade)
                                /\ \E pr \in ParseAnswers :
                                     Finish(Answer(op3, IF pr = "error"
                                                        THEN "parse_error" ELSE "ok"))
  /\ opsStarted' = opsStarted + 1
  /\ UNCHANGED <<courses, inflight>>

\* ------------------------------------------------------------ AuthMiddleware
\* The Authorization header as strings.Split(authHeader, " ") yields it; the
\* absent (empty) header splits into one empty part.
Headers ==
  { <<"">>, <<"Bearer">>, <<"Basic", "good">>, <<"Bearer", "good", "x">>,
    <<"Bearer", "bad">>, <<"Bearer", "good">> }

Routes == {"GetCourses", "CreateCourse", "EnrollInCourse"}

\* The tokens the identity resolver holds a session for.
ValidTokens == {"good"}

\* account.GetSession(token)
GetSession(token) == IF token \in ValidTokens THEN "ok" ELSE "error"

AccountAnswers == {"ok", "error"}

AuthenticateAnyScheme(header, acct) ==
  IF header = <<"">> THEN "401"
  ELSE IF Len(header) # 2 THEN "401"
  ELSE IF GetSession(header[2]) = "error" THEN "401"
  ELSE IF acct = "error" THEN "500"
  ELSE "next"

\* AuthMiddleware's returns before next.ServeHTTP; acct is what account.Get()
\* answers.
Authenticate(header, acct) ==
  IF header = <<"">> THEN "401"
  ELSE IF Len(header) # 2 \/ header[1] # "Bearer" THEN "401"
  ELSE IF GetSession(header[2]) = "error" THEN "401"
  ELSE IF acct = "error" THEN "500"
  ELSE "next"

\* next.ServeHTTP: the handler the route names, run for the principal the
\* identity resolver reports for the token.
ServeHTTP(route, header) ==
  CASE route = "GetCourses" -> \E u \in Users : GetCourses(u, header)
    [] route = "CreateCourse" ->
         \E u \in Users, title \in Titles, tid \in TeacherIds :
           CreateCourse(u, title, tid, header)
    [] route = "EnrollInCourse" ->
         \E u \in Users, cid \in CourseArgs : EnrollInCourse(u, cid, header)

\* A non-OPTIONS request to an /api route: the middleware answers it, or
\* passes it to the route's handler.
AuthMiddleware(route, header) ==
  \E acct \in AccountAnswers :
    LET verdict == Authenticate(header, acct)
    IN  IF verdict = "next"
        THEN ServeHTTP(route, header)
        ELSE /\ CanStart
             /\ Finish(Answer([NoOp EXCEPT !.kind = "AuthMiddleware",
                                           !.route = route,
                                           !.header = header], verdict))
             /\ opsStarted' = opsStarted + 1
             /\ UNCHANGED <<courses, submissions, inflight>>

\* ------------------------------------------------------------ specification
\* The handlers that read the courses collection and write nothing.
NextLists ==
  \/ \E u \in Users : get_courses(u)
  \/ \E header \in Headers : AuthMiddleware("GetCourses", header)

\* The handlers that write the courses collection.
NextCourseWrites ==
  \/ \E u \in Users, title \in Titles : create_course(u, title)
  \/ \E header \in Headers : AuthMiddleware("CreateCourse", header)
  \/ \E u \in Users, cid \in CourseArgs : enroll_course(u, cid)
  \/ \E r \in InFlight : enroll_course_update(r)
  \/ \E header \in Headers : AuthMiddleware("EnrollInCourse", header)
  \/ \E r \in InFlight : EnrollInCourseUpdate(r)

\* The handlers of the courses collection.
NextCourses == NextLists \/ NextCourseWrites

\* The handlers of the submissions collection.
NextWork ==
  \/ \E u \in Users, aid \in AssignmentArgs : submit_assignment(u, aid)
  \/ \E u \in Users, sid \in SubmissionArgs, grade \in Grades :
        grade_assignment(u, sid, grade)

Next == NextCourses \/ NextWork

\* Every handler, requests interleaving at their store calls.
Spec == Init /\ [][Next]_vars

\* The two collections share no document and no handler: each alone.
SpecCourses == Init /\ [][NextCourses]_vars

SpecWork == Init /\ [][NextWork]_vars

\* The handlers that write a collection: creates, enrolls, submit and grade.
NextMutating == NextCourseWrites \/ NextWork

SpecMutating == Init /\ [][NextMutating]_vars

\* Requests on the courses collection made one after the other: a request is
\* received only when every earlier one has been answered.
NextSeq == NextCourses /\ (opsStarted' # opsStarted => inflight = EmptyBag)

SpecSeq == Init /\ [][NextSeq]_vars

\* The handlers of the courses collection with a PDP that may never answer.
\* The runtime runs every handler that can take a step: a request is not left
\* waiting while its next step is possible.
NextLive ==
  \/ NextCourses
  \/ \E u \in Users, cid \in CourseArgs : enroll_course_blocked(u, cid)

SpecLive == Init /\ [][NextLive]_vars /\ WF_vars(NextLive)

\* ------------------------------------------------------------------ claims
\* Every request the state holds: those in flight and the one answered last.
Ops == InFlight \cup {last}

EnrollKinds == {"enroll_course", "EnrollInCourse"}
CreateKinds == {"create_course", "CreateCourse"}
MutatingKinds == EnrollKinds \cup CreateKinds \cup {"submit_assignment", "grade_assignment"}

Range(q) == {q[i] : i \in DOMAIN q}

Count(q, x) == Cardinality({i \in DOMAIN q : q[i] = x})

\* The calls named `name` that op issued after a PDP check answered allow.
AfterAllow(op, name) ==
  {i \in CallsOf(op, name) :
     \E j \in CallsOf(op, "check") : j < i /\ op.calls[j].res = "allow"}

Refused(op) == \E j \in CallsOf(op, "check") : op.calls[j].res # "allow"

\* C1: a student's get_courses result holds only stored courses, each of
\* which the PDP answered allow for in this call; a course whose check
\* answered deny or failed is not in it.
C1_StudentSeesOnlyAllowed ==
  (last.kind = "get_courses" /\ last.role = "student") =>
    /\ Range(last.out) \subseteq 1..Len(courses)
    /\ \A c \in Range(last.out) :
         \E i \in CallsOf(last, "check") :
           last.calls[i].obj = c /\ last.calls[i].res = "allow"
    /\ \A i \in CallsOf(last, "check") :
         last.calls[i].res # "allow" => last.calls[i].obj \notin Range(last.out)

\* A student listed two courses: one allowed and returned, one whose check failed.
C1_Witness ==
  /\ last.kind = "get_courses" /\ last.role = "student" /\ last.resp = "ok"
  /\ Len(last.out) = 1
  /\ \E i \in CallsOf(last, "check") : last.calls[i].res = "error"

\* C2: with requests made in sequence, once an enroll of (student, course)
\* has succeeded the student is in studentIds exactly once, and a further
\* enroll of the same pair never succeeds, issues no update, and answers
\* "already enrolled" whenever it gets to read the course.
C2_SecondEnrollRejected ==
  /\ \A p \in enrolled : Count(courses[p[2]].studentIds, p[1]) = 1
  /\ \A op \in Ops :
       (op.kind \in EnrollKinds /\ op.prior) =>
         /\ op.pc = "done"
         /\ op.resp # "ok"
         /\ CallsOf(op, "update") = {}
         /\ (\E i \in CallsOf(op, "get") : op.calls[i].res = "ok")
              => op.resp = "already"

\* The second enroll of an enrolled pair was answered "already enrolled".
C2_Witness ==
  /\ last.kind \in EnrollKinds /\ last.prior /\ last.resp = "already"
  /\ <<last.user, last.arg>> \in enrolled

\* C3: no course holds a principal twice in studentIds, whatever the
\* interleaving of create and enroll requests.
C3_NoDuplicateStudents ==
  \A c \in DOMAIN courses :
    \A i, j \in DOMAIN courses[c].studentIds :
      i # j => courses[c].studentIds[i] # courses[c].studentIds[j]

\* Two enrolls of the same student in the same course overlap: one has
\* written and answered, the other read before that write and is about to write.
C3_Witness ==
  /\ last.kind \in EnrollKinds /\ last.resp = "ok"
  /\ \E b \in InFlight :
       /\ b.kind \in EnrollKinds /\ b.pc = "update"
       /\ b.user = last.user /\ b.arg = last.arg
       /\ Count(b.buf, last.user) = 1
  /\ Count(courses[last.arg].studentIds, last.user) = 1

\* C4: every enroll implementation reads the course for modification and
\* writes it only after the PDP answered allow in the same request.
C4_EnrollOnlyAfterAllow ==
  \A op \in Ops :
    op.kind \in EnrollKinds =>
      /\ CallsOf(op, "get") = AfterAllow(op, "get")
      /\ CallsOf(op, "update") = AfterAllow(op, "update")

\* C5: a create request issues CreateDocument and syncResource only after the
\* PDP answered allow; when the check answered deny or failed it issues neither.
C5_CreateOnlyAfterAllow ==
  \A op \in Ops :
    op.kind \in CreateKinds =>
      /\ CallsOf(op, "create") = AfterAllow(op, "create")
      /\ CallsOf(op, "sync") = AfterAllow(op, "sync")
      /\ Refused(op) =>
           /\ CallsOf(op, "create") = {} /\ CallsOf(op, "sync") = {}
           /\ op.resp \in {"denied", "pdp_error"}

\* A create was refused by the PDP after an earlier create had written.
C5_Witness ==
  /\ last.kind \in CreateKinds /\ last.resp = "denied"
  /\ Len(courses) = 2

\* C6: a mutating request whose PDP check failed with an error is answered
\* with an error and issues no create and no update.
C6_PdpErrorAborts ==
  \A op \in Ops :
    (op.kind \in MutatingKinds
       /\ \E i \in CallsOf(op, "check") : op.calls[i].res = "error") =>
      /\ op.pc = "done" /\ op.resp = "pdp_error"
      /\ CallsOf(op, "create") = {} /\ CallsOf(op, "update") = {}

\* A grade request read the submission and then its PDP check failed.
C6_Witness ==
  /\ last.kind = "grade_assignment" /\ last.resp = "pdp_error"
  /\ \E i \in CallsOf(last, "get") : last.calls[i].res = "ok"

DueInstant(aid) == ParseDate(Assignments[aid].dueDate).instant

\* C7: a submit run after the assignment's due instant creates no submission,
\* and it answers "past due" whenever the PDP allowed and the assignment was read.
C7_PastDueNeverSubmits ==
  (/\ last.kind = "submit_assignment"
   /\ Exists(Assignments, last.arg)
   /\ ParseDate(Assignments[last.arg].dueDate).ok
   /\ last.now > DueInstant(last.arg)) =>
    /\ last.resp # "ok"
    /\ CallsOf(last, "create") = {}
    /\ (\E i \in CallsOf(last, "get") : last.calls[i].res = "ok")
         => last.resp = "past_due"

\* A student allowed by the PDP submitted after the due instant.
C7_Witness ==
  /\ last.kind = "submit_assignment" /\ last.resp = "past_due"
  /\ \E i \in CallsOf(last, "check") : last.calls[i].res = "allow"
  /\ last.now > DueInstant(last.arg)

\* C8: a grade request by a principal that is neither teacher nor admin is
\* answered with the role error and issues no call at all.
C8_StudentCannotGrade ==
  (last.kind = "grade_assignment" /\ last.role \notin {"teacher", "admin"}) =>
    /\ last.resp = "role_denied"
    /\ last.calls = <<>>

\* A student asked to grade the stored submission.
C8_Witness ==
  /\ last.kind = "grade_assignment" /\ last.role = "student"
  /\ Exists(submissions, last.arg)

\* C9: an enroll request by a principal that is not a student issues no call
\* (no PDP check, no store read or write) and is answered with the role error
\* (the HTTP handler answers a request without course id as malformed first).
C9_NonStudentCannotEnroll ==
  \A op \in Ops :
    (op.kind \in EnrollKinds /\ op.role # "student") =>
      /\ op.pc = "done"
      /\ op.calls = <<>>
      /\ op.resp = IF op.kind = "EnrollInCourse" /\ op.arg = 0
                   THEN "validation" ELSE "role_denied"

\* A teacher asked the enroll_course function to enroll in the stored course.
C9_Witness ==
  /\ last.kind = "enroll_course" /\ last.role = "teacher"
  /\ Exists(courses, last.arg)

\* C10: a create request by a principal without the admin role that names
\* another principal as teacher writes no course and is answered with a
\* permission error.
C10_OtherTeacherRejected ==
  \A op \in Ops :
    (/\ op.kind = "CreateCourse"
     /\ op.role # "admin"
     /\ op.tid \notin {"", op.user}) =>
      /\ CallsOf(op, "create") = {}
      /\ op.pc = "done"
      /\ op.resp \in {"admins_only", "denied", "pdp_error", "validation"}

ListKinds == {"get_courses", "GetCourses"}

\* The store calls of op named `name` all answered ok.
AllOk(op, name) == \A i \in CallsOf(op, name) : op.calls[i].res = "ok"

Allowed(op) == \E i \in CallsOf(op, "check") : op.calls[i].res = "allow"

\* C11: a create request of the HTTP service by an admin that names another
\* principal as teacher, allowed by the PDP and written by the store, is
\* answered success and the stored course has that teacherId.
C11_AdminSetsOtherTeacher ==
  \A op \in Ops :
    (/\ op.kind = "CreateCourse"
     /\ op.role = "admin"
     /\ op.tid \notin {"", op.user}
     /\ Allowed(op)
     /\ AllOk(op, "create")) =>
      /\ op.pc = "done" /\ op.resp = "ok"
      /\ courses[op.out[1]].teacherId = op.tid

\* C12: a create by a teacher, when it succeeds, stores a course with the
\* teacher as teacherId and no student; a get_courses by the same teacher
\* that is the very next step and reads the store returns that course.
C12_Step ==
  /\ (/\ last' # last
      /\ last'.kind \in CreateKinds /\ last'.role = "teacher"
      /\ last'.resp = "ok") =>
        /\ courses'[last'.out[1]].teacherId = last'.user
        /\ courses'[last'.out[1]].studentIds = <<>>
  /\ (/\ last.kind \in CreateKinds /\ last.role = "teacher" /\ last.resp = "ok"
      /\ opsStarted' = opsStarted + 1
      /\ last'.kind = "get_courses" /\ last'.user = last.user
      /\ last'.resp = "ok") =>
        last.out[1] \in Range(last'.out)

C12_CreateThenListRoundTrip == [][C12_Step]_vars

\* The second of two requests was t1 listing, right after t1 created course 2.
C12_Witness ==
  /\ opsStarted = 2 /\ Len(courses) = 2
  /\ courses[2].teacherId = "t1" /\ courses[2].studentIds = <<>>
  /\ last.kind = "get_courses" /\ last.user = "t1" /\ last.resp = "ok"
  /\ 2 \in Range(last.out)

\* C13: a teacher's get_courses result is exactly the stored courses whose
\* teacherId is the teacher's id.
C13_TeacherSeesExactlyOwn ==
  (last.kind = "get_courses" /\ last.role = "teacher" /\ last.resp = "ok") =>
    /\ Range(last.out) = {c \in DOMAIN courses : courses[c].teacherId = last.user}
    /\ \A c \in Range(last.out) : Count(last.out, c) = 1

\* A teacher listed a store holding its own course and a course of another.
C13_Witness ==
  /\ last.kind = "get_courses" /\ last.role = "teacher" /\ last.resp = "ok"
  /\ Len(last.out) = 1
  /\ \E c \in DOMAIN courses : courses[c].teacherId # last.user

\* C14: a list request by an admin that read the store returns every stored
\* course, in both list implementations, whatever the PDP answers.
C14_AdminSeesAll ==
  (last.kind \in ListKinds /\ last.role = "admin" /\ AllOk(last, "list")) =>
    /\ last.resp = "ok"
    /\ last.out = AllIds(courses)

\* The lists that filter by PDP check: a student's get_courses, any GetCourses.
Filtered(op) == op.kind = "GetCourses" \/ (op.kind = "get_courses" /\ op.role = "student")

CheckedWith(op, res) == {op.calls[i].obj : i \in {j \in CallsOf(op, "check") : op.calls[j].res = res}}

\* C15: a PDP-filtered list that read the store answers success whatever the
\* checks answered, and returns exactly the courses whose own check answered
\* allow: a check error on one course leaves out that course only.
C15_CheckErrorExcludesOneCourse ==
  (Filtered(last) /\ CallsOf(last, "list") # {} /\ AllOk(last, "list")) =>
    /\ last.resp = "ok"
    /\ {last.calls[i].obj : i \in CallsOf(last, "check")} = DOMAIN courses
    /\ Range(last.out) = CheckedWith(last, "allow")

\* GetCourses over two courses: the first check failed, the second allowed.
C15_Witness ==
  /\ last.kind = "GetCourses" /\ last.resp = "ok"
  /\ CheckedWith(last, "error") = {1}
  /\ last.out = <<2>>

\* C16: a mutating request that is answered with an error has written nothing:
\* the step that answers it leaves both collections as they were.
C16_Step ==
  (last' # last /\ last'.kind \in MutatingKinds /\ last'.resp # "ok") =>
    (courses' = courses /\ submissions' = submissions)

C16_ErrorLeavesStoreUnchanged == [][C16_Step]_vars

SyncFailed(op) == \E i \in CallsOf(op, "sync") : op.calls[i].res = "error"

\* C17: a create or enroll request whose syncResource call failed is still
\* answered success, and the store holds the course it created or the
\* studentIds it wrote.
C17_SyncFailureKeepsSuccess ==
  (last.kind \in CreateKinds \cup {"enroll_course"} /\ SyncFailed(last)) =>
    /\ last.pc = "done" /\ last.resp = "ok"
    /\ last.kind \in CreateKinds =>
         /\ Exists(courses, last.out[1])
         /\ courses[last.out[1]].title = last.title
         /\ courses[last.out[1]].studentIds = <<>>
    /\ last.kind = "enroll_course" =>
         /\ courses[last.arg].studentIds = last.out
         /\ AlreadyEnrolled(courses[last.arg].studentIds, last.user)

\* An enroll wrote the course, its sync failed, and it answered success.
C17_Witness ==
  /\ last.kind = "enroll_course" /\ SyncFailed(last) /\ last.resp = "ok"
  /\ \E i \in CallsOf(last, "update") : last.calls[i].res = "ok"

\* C18: a submission whose grade is not 0 never gets grade 0 again.
C18_Step ==
  \A i \in DOMAIN submissions :
    submissions[i].grade # 0 => submissions'[i].grade # 0

C18_GradeNeverBackToZero == [][C18_Step]_vars

\* C19: every stored submission has a grade within 0..100.
C19_GradeInRange ==
  \A i \in DOMAIN submissions : submissions[i].grade \in 0..100

Names(op) == [i \in DOMAIN op.calls |-> op.calls[i].call]

IsPrefix(p, q) == Len(p) <= Len(q) /\ \A i \in DOMAIN p : p[i] = q[i]

\* Every call of op but its last one answered allow or ok.
EachAfterPrevious(op) ==
  \A i \in DOMAIN op.calls :
    i < Len(op.calls) => op.calls[i].res \in {"allow", "ok"}

\* C20 as stated: the calls of an enroll_course request are, in this order,
\* the read of the course, the PDP check, the write, the sync.
C20_ReadCheckWriteSync ==
  \A op \in Ops :
    op.kind = "enroll_course" =>
      /\ IsPrefix(Names(op), <<"get", "check", "update", "sync">>)
      /\ EachAfterPrevious(op)

\* C20 amended: the calls of an enroll_course request are, in this order, the
\* PDP check, the read of the course, the write, the sync, each issued after
\* the one before it answered.
C20_CheckReadWriteSync ==
  \A op \in Ops :
    op.kind = "enroll_course" =>
      /\ IsPrefix(Names(op), <<"check", "get", "update", "sync">>)
      /\ EachAfterPrevious(op)

\* An enroll_course request issued all four calls.
C20_Witness ==
  /\ last.kind = "enroll_course"
  /\ Names(last) = <<"check", "get", "update", "sync">>

\* C21: every request is eventually answered: again and again no request is
\* in flight, also when a collaborator never answers a call.
C21_EveryRequestAnswered == []<>(inflight = EmptyBag)

\* C22: a create request with an empty title is answered with a validation
\* error and issues no PDP check and no store call, in both implementations.
C22_EmptyTitleRejected ==
  (last.kind \in CreateKinds /\ last.title = "") =>
    /\ last.resp = "validation"
    /\ last.calls = <<>>

Missing(header) == header = <<"">>

NotBearerForm(header) == Len(header) # 2 \/ header[1] # "Bearer"

TokenRejected(header) == Len(header) = 2 /\ header[2] \notin ValidTokens

\* C23: a request of the HTTP service whose Authorization header is missing,
\* is not of the form Bearer <token>, or carries a token the identity
\* resolver rejects is answered 401 by the middleware: no handler runs for
\* it and it issues no PDP or store call.
C23_BadCredentialStopsAtMiddleware ==
  \A op \in Ops :
    (/\ op.route \in Routes
     /\ Missing(op.header) \/ NotBearerForm(op.header) \/ TokenRejected(op.header)) =>
      /\ op.kind = "AuthMiddleware"
      /\ op.pc = "done" /\ op.resp = "401"
      /\ op.calls = <<>>

\* An enroll request with a token the resolver rejects was answered 401.
C23_Witness ==
  /\ last.route = "EnrollInCourse" /\ last.header = <<"Bearer", "bad">>
  /\ last.resp = "401"

\* C24: the submissions collection holds at most one submission for each
\* (assignmentId, studentId) pair.
C24_OneSubmissionPerPair ==
  \A i, j \in DOMAIN submissions :
    (/\ submissions[i].assignmentId = submissions[j].assignmentId
     /\ submissions[i].studentId = submissions[j].studentId) => i = j

\* C25: no step changes the teacherId or the title of a stored course or
\* removes a course, and a step that answers an enroll request leaves every
\* course but the one the request names as it was.
C25_Step ==
  /\ \A c \in DOMAIN courses :
       /\ c \in DOMAIN courses'
       /\ courses'[c].teacherId = courses[c].teacherId
       /\ courses'[c].title = courses[c].title
  /\ (last' # last /\ last'.kind \in EnrollKinds) =>
       /\ DOMAIN courses' = DOMAIN courses
       /\ \A c \in DOMAIN courses : c # last'.arg => courses'[c] = courses[c]

C25_EnrollTouchesOnlyStudentIds == [][C25_Step]_vars

\* The HTTP service enrolled a student in one of two stored courses.
C25_Witness ==
  /\ last.kind = "EnrollInCourse" /\ last.resp = "ok"
  /\ Len(courses) = 2
  /\ courses[last.arg].studentIds = <<last.user>>

\* C26: a student an enroll request answered success for stays in the
\* studentIds of that course.
C26_NoLostEnrollment ==
  \A p \in enrolled : AlreadyEnrolled(courses[p[2]].studentIds, p[1])

\* C27: when no request is in flight and every SyncResource call was
\* acknowledged, the teacherId and the studentIds the PDP holds for a course
\* are those of the stored course.
C27_PdpViewEqualsStore ==
  (inflight = EmptyBag /\ pdp.acked) =>
    \A c \in DOMAIN courses \cap DOMAIN pdp.view :
      /\ pdp.view[c].teacherId = courses[c].teacherId
      /\ "studentIds" \in DOMAIN pdp.view[c] =>
           pdp.view[c].studentIds = courses[c].studentIds

\* C28: a step that answers a grade request changes the submissions only
\* after the request read the submission it names and the PDP then allowed
\* the check on the assignmentId stored in that submission; when the PDP
\* denied, nothing changes; and the change is the grade of that one
\* submission: its other fields and every other submission keep their values.
C28_Step ==
  (last'.kind = "grade_assignment" /\ opsStarted' # opsStarted) =>
    /\ (\E i \in CallsOf(last', "check") : last'.calls[i].res = "deny")
         => submissions' = submissions
    /\ submissions' # submissions =>
         /\ Exists(submissions, last'.arg)
         /\ Len(last'.calls) = 3
         /\ last'.calls[1] = Call("get", last'.arg, "ok")
         /\ last'.calls[2] =
              Call("check", submissions[last'.arg].assignmentId, "allow")
         /\ last'.calls[3] = Call("update", last'.arg, "ok")
         /\ submissions' =
              [submissions EXCEPT ![last'.arg].grade = last'.grade]

C28_GradeOnlyAfterAllow == [][C28_Step]_vars

\* A teacher the PDP allowed graded one of two stored submissions.
C28_Witness ==
  /\ last.kind = "grade_assignment" /\ last.resp = "ok"
  /\ Len(submissions) = 2
  /\ submissions[last.arg].grade = 50
  /\ \E i \in DOMAIN submissions : i # last.arg /\ submissions[i].grade = 0

\* C29: a submit request passes its gates in the order role, PDP check,
\* assignment fetch, due date.  A principal that is not a student is refused
\* with no call; the calls are a prefix of check, get, create, each made only
\* when the one before answered allow or ok; a PDP deny is answered with the
\* permission error after that one call, the assignment not fetched and the
\* clock not read; the due-date answers come only after an allowed check and
\* a successful fetch.
C29_SubmitGateOrder ==
  last.kind = "submit_assignment" =>
    /\ last.role # "student" => (last.resp = "role_denied" /\ last.calls = <<>>)
    /\ IsPrefix(Names(last), <<"check", "get", "create">>)
    /\ EachAfterPrevious(last)
    /\ (\E i \in CallsOf(last, "check") : last.calls[i].res = "deny") =>
         /\ last.resp = "denied"
         /\ Len(last.calls) = 1
         /\ last.now = NoOp.now
    /\ last.resp \in {"bad_date", "past_due"} =>
         /\ Len(last.calls) = 2
         /\ last.calls[1] = Call("check", last.arg, "allow")
         /\ last.calls[2] = Call("get", last.arg, "ok")

\* The PDP denied a student's submit for a stored assignment.
C29_Witness ==
  /\ last.kind = "submit_assignment" /\ last.role = "student"
  /\ Exists(Assignments, last.arg)
  /\ last.resp = "denied"
  /\ last.calls = <<Call("check", last.arg, "deny")>>

\* The first instant of the day the assignment's due date names.
StartOfDueDay(aid) == Assignments[aid].dueDate.day * TicksPerDay

\* C30: a submit by a student the PDP allowed, for a stored assignment with a
\* well-formed due date D, goes on to create the submission exactly when the
\* clock reads no later than the first instant of day D; at every later
\* instant, those of day D included, it is answered "past due" and creates
\* nothing.
C30_DueDateBoundary ==
  (/\ last.kind = "submit_assignment"
   /\ Len(last.calls) >= 2
   /\ last.calls[1] = Call("check", last.arg, "allow")
   /\ last.calls[2] = Call("get", last.arg, "ok")
   /\ Assignments[last.arg].dueDate.wellFormed) =>
    IF last.now <= StartOfDueDay(last.arg)
    THEN last.resp # "past_due" /\ CallsOf(last, "create") # {}
    ELSE last.resp = "past_due" /\ CallsOf(last, "create") = {}

\* A submit was refused as past due at an instant of the due day itself.
C30_Witness ==
  /\ last.kind = "submit_assignment" /\ last.resp = "past_due"
  /\ last.now > StartOfDueDay(last.arg)
  /\ last.now < StartOfDueDay(last.arg) + TicksPerDay
====
